---- MODULE Spec2Model ----
(***************************************************************************)
(* State-machine model of picard/track.py: the file-linkage operations of  *)
(* Track (add_file, update_file_metadata, remove_file) and the             *)
(* asynchronous load / callback machine of NonAlbumTrack (load,            *)
(* _recording_request_finished, _parse_recording, run_when_loaded).        *)
(*                                                                         *)
(* One NonAlbumTrack is modelled together with the files that may be       *)
(* linked to it.  Every handler runs to completion (single-threaded event  *)
(* loop), so each handler is one action.  Callbacks passed to              *)
(* run_when_loaded are opaque callables that return normally and do not    *)
(* re-enter the track.                                                     *)
(***************************************************************************)
EXTENDS Integers, Sequences, FiniteSets, TLC

\* ------------------------------------------------------------------ bounds
MaxFiles == 2      \* number of File objects that exist
MaxReq == 2        \* number of load() calls in one behaviour
MaxReg == 2        \* number of run_when_loaded() calls in one behaviour

Files == 1..MaxFiles
ReqIds == 1..MaxReq
RegIds == 1..MaxReg

\* ---------------------------------------------------------------- metadata
\* A Metadata object is a mapping tag name -> value; a tag that was never
\* set reads as the empty string.
Keys == {"title", "~extension"}

NoCallback == 0

\* Metadata() as constructed in Track.__init__
EmptyMetadata == [k \in Keys |-> ""]

\* self.album.metadata of tagger.nats, read by load()
album_metadata == [k \in Keys |-> ""]

\* the title load() writes while the fetch is in flight
LOADING_TITLE == "[loading track information]"

\* file.orig_metadata: the tags read from the file on disk; files differ in
\* their format extension
orig_metadata(file) ==
    [k \in Keys |-> IF k = "title" THEN "on disk"
                    ELSE IF file % 2 = 1 THEN ".mp3" ELSE ".ogg"]

\* Recordings a successful fetch may deliver: the tags the translator, the
\* metadata processors and the tagger script end up writing into the
\* track's metadata.
Recordings ==
    { ("title" :> "A"),
      ("title" :> "B") @@ ("~extension" :> ".flac") }

\* A fetch may also deliver a document without metadata[0].recording[0].
Malformed == ("metadata" :> "")

\* ... or a recording on which the translator (or a step after it in
\* _parse_recording) raises after tags of the recording were written
Raising == { ("title" :> "A") @@ ("raise" :> "") }

Documents == Recordings \cup {Malformed} \cup Raising

\* parsing the document raises
Raises(document) == document = Malformed \/ "raise" \in DOMAIN document

\* the metadata markers of the four track categories
FlagKeys == {"~video", "~pregap", "~datatrack", "~silence"}

\* picard.const.VARIOUS_ARTISTS_ID
VARIOUS_ARTISTS_ID == "89ad4ac3-39f7-470e-963a-56509c546377"

\* _TRANSLATE_TAGS
TRANSLATE_TAGS ==
    ("hip hop" :> "Hip-Hop") @@ ("synth-pop" :> "Synthpop")
        @@ ("electronica" :> "Electronic")

\* the tag names that occur in the vote collections below
TagNames == {"Pop", "hip hop", "pop", "rock"}

\* the order of str comparison (by code point) on these names
code_point_rank ==
    ("Pop" :> 1) @@ ("hip hop" :> 2) @@ ("pop" :> 3) @@ ("rock" :> 4)

\* name.lower()
str_lower ==
    ("Pop" :> "pop") @@ ("hip hop" :> "hip hop") @@ ("pop" :> "pop")
        @@ ("rock" :> "rock")

\* name.title()
str_title ==
    ("Pop" :> "Pop") @@ ("hip hop" :> "Hip Hop") @@ ("pop" :> "Pop")
        @@ ("rock" :> "Rock")

\* s.strip().lower() on the pieces of the ignore_tags option
str_strip_lower ==
    ("" :> "") @@ (" Pop " :> "pop") @@ ("ROCK" :> "rock")
        @@ ("hip hop" :> "hip hop")

\* config.setting as the options dialog leaves it by default
DefaultSetting ==
    [ completeness_ignore_videos  |-> FALSE,
      completeness_ignore_pregap  |-> FALSE,
      completeness_ignore_data    |-> FALSE,
      completeness_ignore_silence |-> FALSE,
      artists_tags  |-> FALSE,
      max_tags      |-> 0,
      min_tag_usage |-> 0,
      ignore_tags   |-> <<"">>,
      join_tags     |-> "" ]

\* The ignore_tags option is a comma-separated string; it is kept as the
\* sequence of its pieces between the commas (the empty string is the one
\* empty piece).  The values of the options the genre conversion reads:
IgnoreTagsOptions == { <<"">>, <<" Pop ">>, <<"ROCK", "hip hop">> }
MaxTagsOptions == {0, 1, 2, 10}
MinTagUsageOptions == {0, 30, 67, 100}
JoinTagsOptions == {"", "; "}

\* a collection of tag votes without any name in it
EmptyTags == [n \in {} |-> 0]

\* a track whose album, release group and artists carry no votes
NoFolksonomy ==
    [ track |-> EmptyTags, album |-> EmptyTags, release_group |-> <<>>,
      track_artists |-> <<>>, album_artists |-> <<>> ]

\* the vote collections a track, its album and its release group may carry
TrackTags ==
    { EmptyTags, ("rock" :> 5), ("pop" :> 0), ("hip hop" :> 2) @@ ("Pop" :> 1) }
AlbumTags ==
    { EmptyTags, ("rock" :> 3) @@ ("pop" :> 2), ("rock" :> -5) }
ReleaseGroups == { <<>>, << ("pop" :> 1) >> }

\* the vote collections of the track's artists and of the album's artists
TrackArtistsTags == << ("hip hop" :> 2) >>
AlbumArtistsTags == << ("rock" :> 1), ("rock" :> 1) @@ ("pop" :> 1) >>

NoOut == [op |-> ""]

VARIABLES
    linked_files,        \* Track.linked_files: sequence of files
    num_linked_files,    \* Track.num_linked_files
    metadata,            \* Track.metadata
    file_metadata,       \* file.metadata of every file
    file_orig_metadata,  \* file.orig_metadata of every file
    loaded,              \* NonAlbumTrack.loaded
    callback,            \* NonAlbumTrack.callback: a registration or NoCallback
    inflight,            \* fetches issued by load() and not yet completed
    undisturbed,         \* in-flight fetches with no completion since their issue
    nextReq,             \* number of load() calls so far
    nextReg,             \* number of run_when_loaded() calls so far
    invoked,             \* how often the func of each registration was called
    superseded,          \* registrations not yet invoked when a later
                         \* run_when_loaded() came while the track was not loaded
    added,               \* files added and not removed since
    found,               \* per load() call: the loaded flag and metadata it found
    setting,             \* config.setting: the options the track reads
    folksonomy,          \* the tag-vote collections the track can see
    out,                 \* the result of the last query or conversion
    cb_seen,             \* what the func called by the last handler saw
    last                 \* the last handler that ran, and what it called

vars == <<linked_files, num_linked_files, metadata, file_metadata,
          file_orig_metadata, loaded, callback, inflight, undisturbed,
          nextReq, nextReg, invoked, superseded, added, found,
          setting, folksonomy, out, cb_seen, last>>

\* --------------------------------------------------------------- helpers
Range(s) == {s[i] : i \in 1..Len(s)}

\* list.remove(x): removes the first occurrence of x
list_remove(s, x) ==
    LET i == CHOOSE j \in 1..Len(s) : s[j] = x /\ \A h \in 1..(j-1) : s[h] # x
    IN  SubSeq(s, 1, i-1) \o SubSeq(s, i+1, Len(s))

\* Metadata.copy(other): self becomes a copy of other
metadata_copy(other) == other

\* File.copy_metadata(metadata): the file's working metadata becomes a copy
\* of the given metadata
copy_metadata(md) == md

\* recording_to_metadata(recording, m, track): writes the recording's tags
\* into m in place and leaves the other tags of m alone
recording_to_metadata(recording, m) ==
    [k \in Keys |-> IF k \in DOMAIN recording THEN recording[k] ELSE m[k]]

\* the record kept in `last`: the handler, its argument, what held when it
\* was entered (file linked / track loaded / fetch undisturbed), what a
\* completion delivered, and the collaborators the handler called, in order
Called(op, arg, was, input, calls) ==
    [op |-> op, arg |-> arg, was |-> was, input |-> input, calls |-> calls]

\* what a fetch completion delivers to _recording_request_finished
delivered(document, error) ==
    IF error THEN "error"
    ELSE IF Raises(document) THEN "malformed" ELSE "recording"

NoView == [reg |-> NoCallback, loaded |-> FALSE, metadata |-> EmptyMetadata,
           file_metadata |-> [f \in Files |-> EmptyMetadata]]

\* ------------------------------------------------------------------ Track
update_file_metadata_keep_extension(lf, md, fm, file) ==
    IF file \notin Range(lf) THEN fm ELSE [fm EXCEPT ![file] = copy_metadata(md)]

\* Track.update_file_metadata(file): the files' working metadata afterwards,
\* for a track with linked files lf and metadata md
update_file_metadata(lf, md, fm, file) ==
    IF file \notin Range(lf)
    THEN fm
    ELSE [fm EXCEPT ![file] =
            [copy_metadata(md) EXCEPT
                !["~extension"] = file_orig_metadata[file]["~extension"]]]

\* the collaborators update_file_metadata calls
update_file_metadata_calls(lf, file) ==
    IF file \notin Range(lf) THEN <<>> ELSE <<"file.update", "update">>

add_file_link_always(lf, n, file) ==
    [linked_files |-> Append(lf, file), num_linked_files |-> n + 1]

\* Track.add_file, lines 59-61: the list and the count afterwards
add_file_link(lf, n, file) ==
    IF file \notin Range(lf)
    THEN [linked_files |-> Append(lf, file), num_linked_files |-> n + 1]
    ELSE [linked_files |-> lf, num_linked_files |-> n]

add_file_only_when_new(file) ==
    LET l == add_file_link(linked_files, num_linked_files, file)
        new == file \notin Range(linked_files) IN
    /\ linked_files' = l.linked_files
    /\ num_linked_files' = l.num_linked_files
    /\ file_metadata' =
          IF new
          THEN update_file_metadata(l.linked_files, metadata, file_metadata, file)
          ELSE file_metadata
    /\ added' = added \cup {file}
    /\ cb_seen' = NoView
    /\ last' = Called("add_file", file, ~new, "",
                      IF new
                      THEN <<"album._add_file">>
                           \o update_file_metadata_calls(l.linked_files, file)
                      ELSE <<>>)
    /\ UNCHANGED <<setting, folksonomy, out>>
    /\ UNCHANGED <<metadata, file_orig_metadata, loaded, callback, inflight,
                   undisturbed, nextReq, nextReg, invoked, superseded, found>>

add_file(file) ==
    LET l == add_file_link(linked_files, num_linked_files, file) IN
    /\ linked_files' = l.linked_files
    /\ num_linked_files' = l.num_linked_files
    /\ file_metadata' =
          update_file_metadata(l.linked_files, metadata, file_metadata, file)
    /\ added' = added \cup {file}
    /\ cb_seen' = NoView
    /\ last' = Called("add_file", file, file \in Range(linked_files), "",
                      <<"album._add_file">>
                      \o update_file_metadata_calls(l.linked_files, file))
    /\ UNCHANGED <<setting, folksonomy, out>>
    /\ UNCHANGED <<metadata, file_orig_metadata, loaded, callback, inflight,
                   undisturbed, nextReq, nextReg, invoked, superseded, found>>

remove_file_revert_nothing(fm, file) == fm

\* Track.remove_file, line 79: file.copy_metadata(file.orig_metadata)
remove_file_revert(fm, file) ==
    [fm EXCEPT ![file] = copy_metadata(file_orig_metadata[file])]

remove_file(file) ==
    /\ IF file \notin Range(linked_files)
       THEN /\ UNCHANGED <<linked_files, num_linked_files, file_metadata>>
            /\ last' = Called("remove_file", file, FALSE, "", <<>>)
       ELSE /\ linked_files' = list_remove(linked_files, file)
            /\ num_linked_files' = num_linked_files - 1
            /\ file_metadata' = remove_file_revert(file_metadata, file)
            /\ last' = Called("remove_file", file, TRUE, "",
                              <<"album._remove_file", "update">>)
    /\ added' = added \ {file}
    /\ cb_seen' = NoView
    /\ UNCHANGED <<setting, folksonomy, out>>
    /\ UNCHANGED <<metadata, file_orig_metadata, loaded, callback, inflight,
                   undisturbed, nextReq, nextReg, invoked, superseded, found>>

push_writes_track(file) ==
    /\ file_metadata' =
          update_file_metadata(linked_files, metadata, file_metadata, file)
    /\ metadata' =
          IF file \in Range(linked_files)
          THEN [metadata EXCEPT
                   !["~extension"] = file_orig_metadata[file]["~extension"]]
          ELSE metadata
    /\ cb_seen' = NoView
    /\ last' = Called("update_file_metadata", file, file \in Range(linked_files),
                      "", update_file_metadata_calls(linked_files, file))
    /\ UNCHANGED <<setting, folksonomy, out>>
    /\ UNCHANGED <<linked_files, num_linked_files, file_orig_metadata,
                   loaded, callback, inflight, undisturbed, nextReq, nextReg,
                   invoked, superseded, added, found>>

\* Track.update_file_metadata(file) called on its own (the album and the
\* user interface call it after they changed the track's metadata)
push(file) ==
    /\ file_metadata' =
          update_file_metadata(linked_files, metadata, file_metadata, file)
    /\ cb_seen' = NoView
    /\ last' = Called("update_file_metadata", file, file \in Range(linked_files),
                      "", update_file_metadata_calls(linked_files, file))
    /\ UNCHANGED <<setting, folksonomy, out>>
    /\ UNCHANGED <<linked_files, num_linked_files, metadata, file_orig_metadata,
                   loaded, callback, inflight, undisturbed, nextReq, nextReg,
                   invoked, superseded, added, found>>

\* ------------------------------------------------------ Track: completeness
\* metadata[k]: a tag that was never set reads as the empty string
tag(md, k) == IF k \in DOMAIN md THEN md[k] ELSE ""

is_video == tag(metadata, "~video") = "1"
is_pregap == tag(metadata, "~pregap") = "1"
is_data == tag(metadata, "~datatrack") = "1"
is_silence == tag(metadata, "~silence") = "1"

ignored_for_completeness_mismatched ==
    \/ setting.completeness_ignore_videos /\ is_video
    \/ setting.completeness_ignore_pregap /\ is_data
    \/ setting.completeness_ignore_data /\ is_pregap
    \/ setting.completeness_ignore_silence /\ is_silence

ignored_for_completeness ==
    \/ setting.completeness_ignore_videos /\ is_video
    \/ setting.completeness_ignore_pregap /\ is_pregap
    \/ setting.completeness_ignore_data /\ is_data
    \/ setting.completeness_ignore_silence /\ is_silence

is_complete == ignored_for_completeness \/ num_linked_files = 1

\* a caller asks Track.is_complete()
query_is_complete ==
    /\ out' = [op |-> "is_complete", result |-> is_complete]
    /\ UNCHANGED <<linked_files, num_linked_files, metadata, file_metadata,
                   file_orig_metadata, loaded, callback, inflight, undisturbed,
                   nextReq, nextReg, invoked, superseded, added, found,
                   setting, folksonomy, cb_seen, last>>

\* ------------------------------------------------------------ Track: genre
\* DataObject.merge_folksonomy_tags(this, that): sums the counts per name
merge_folksonomy_tags(this, that) ==
    [n \in DOMAIN this \cup DOMAIN that |->
        (IF n \in DOMAIN this THEN this[n] ELSE 0)
        + (IF n \in DOMAIN that THEN that[n] ELSE 0)]

\* the loops of lines 181-182 and 184-185 over a list of artists
RECURSIVE merge_artists(_, _, _)
merge_artists(tags, artists, i) ==
    IF i > Len(artists)
    THEN tags
    ELSE merge_artists(merge_folksonomy_tags(tags, artists[i]), artists, i + 1)

\* lines 174-177: the track's, the album's and the release group's votes
merged_tags ==
    LET tags == merge_folksonomy_tags(folksonomy.track, folksonomy.album) IN
    IF folksonomy.release_group # <<>>
    THEN merge_folksonomy_tags(tags, folksonomy.release_group[1])
    ELSE tags

accumulator_has_no_positive(tags) == \A n \in DOMAIN tags : tags[n] <= 0

\* line 178: `not tags`
accumulator_is_empty(tags) == DOMAIN tags = {}

\* line 178: the artists are looked up
artist_fallback(tags) == accumulator_is_empty(tags) /\ setting.artists_tags

\* lines 178-185
tags_with_artists(tags) ==
    IF artist_fallback(tags)
    THEN IF tag(metadata, "musicbrainz_albumartistid") = VARIOUS_ARTISTS_ID
         THEN merge_artists(tags, folksonomy.track_artists, 1)
         ELSE merge_artists(tags, folksonomy.album_artists, 1)
    ELSE tags

\* line 187: the names with a count above zero
positive_tags(tags) ==
    [n \in {m \in DOMAIN tags : tags[m] > 0} |-> tags[n]]

\* line 191: max(tags.values())
maxcount(tags) ==
    CHOOSE c \in {tags[n] : n \in DOMAIN tags} : \A n \in DOMAIN tags : tags[n] <= c

\* line 194: 100 * count / maxcount on integers
usage_percent(count, max) == (100 * count) \div max

\* lines 192-194: the list in the iteration order of the dict
unsorted_taglist(tags, order) ==
    [i \in 1..Len(order) |->
        <<usage_percent(tags[order[i]], maxcount(tags)), order[i]>>]

tuple_greater_by_usage(a, b) == a[1] > b[1]

\* comparison of two (usage, name) tuples
tuple_greater(a, b) ==
    \/ a[1] > b[1]
    \/ a[1] = b[1] /\ code_point_rank[a[2]] > code_point_rank[b[2]]

\* e is put before the first element of the descending list it is greater than
insert_reverse(list, e) ==
    LET before == {i \in 1..Len(list) : tuple_greater(e, list[i])}
        at == IF before = {} THEN Len(list) + 1
              ELSE CHOOSE i \in before : \A j \in before : i <= j
    IN  SubSeq(list, 1, at - 1) \o <<e>> \o SubSeq(list, at, Len(list))

\* line 195: taglist.sort(reverse=True)
RECURSIVE sort_reverse(_, _)
sort_reverse(list, i) ==
    IF i = 0 THEN <<>> ELSE insert_reverse(sort_reverse(list, i - 1), list[i])

\* _get_ignored_folksonomy_tags
get_ignored_folksonomy_tags ==
    IF setting.ignore_tags = <<"">>
    THEN <<>>
    ELSE [i \in 1..Len(setting.ignore_tags) |->
             str_strip_lower[setting.ignore_tags[i]]]

taglist_slice_all(taglist, maxtags) == taglist

\* line 201: taglist[:maxtags]
taglist_slice(taglist, maxtags) ==
    SubSeq(taglist, 1, IF maxtags < Len(taglist) THEN maxtags ELSE Len(taglist))

below_or_at_min_usage(usage, minusage) == usage <= minusage

\* line 204: usage < minusage
below_min_usage(usage, minusage) == usage < minusage

\* lines 201-205: the names the loop lets through, until it breaks
RECURSIVE genre_names(_, _, _, _)
genre_names(considered, i, ignore_tags, minusage) ==
    IF i > Len(considered)
    THEN <<>>
    ELSE IF str_lower[considered[i][2]] \in Range(ignore_tags)
         THEN genre_names(considered, i + 1, ignore_tags, minusage)
         ELSE IF below_min_usage(considered[i][1], minusage)
              THEN <<>>
              ELSE <<considered[i][2]>>
                   \o genre_names(considered, i + 1, ignore_tags, minusage)

\* line 206: _TRANSLATE_TAGS.get(name, name.title())
translate(name) ==
    IF name \in DOMAIN TRANSLATE_TAGS THEN TRANSLATE_TAGS[name] ELSE str_title[name]

\* line 210: join_tags.join(genre)
RECURSIVE str_join(_, _, _)
str_join(join_tags, genre, i) ==
    IF i > Len(genre) THEN ""
    ELSE IF i = Len(genre) THEN genre[i]
    ELSE genre[i] \o join_tags \o str_join(join_tags, genre, i + 1)

\* the iteration orders a dict with these keys may have
Orders(names) ==
    {order \in [1..Cardinality(names) -> names] : Range(order) = names}

CONVERT == "_convert_folksonomy_tags_to_genre"

\* Track._convert_folksonomy_tags_to_genre, with `order` the iteration order
\* of the dict of line 187
convert_folksonomy_tags_to_genre(order) ==
    LET accumulator == tags_with_artists(merged_tags)
        tags == positive_tags(accumulator)
        taglist == sort_reverse(unsorted_taglist(tags, order), Len(order))
        names == genre_names(taglist_slice(taglist, setting.max_tags), 1,
                             get_ignored_folksonomy_tags, setting.min_tag_usage)
        genre == [i \in 1..Len(names) |-> translate(names[i])]
        written == IF setting.join_tags # ""
                   THEN <<str_join(setting.join_tags, genre, 1)>>
                   ELSE genre
    IN
    /\ order \in Orders(DOMAIN tags)
    /\ IF DOMAIN tags = {}
       THEN /\ out' = [op |-> CONVERT, fallback |-> artist_fallback(merged_tags),
                       tags |-> accumulator, written |-> FALSE,
                       taglist |-> <<>>, names |-> <<>>, genre |-> <<>>]
            /\ UNCHANGED metadata
       ELSE /\ out' = [op |-> CONVERT, fallback |-> artist_fallback(merged_tags),
                       tags |-> accumulator, written |-> TRUE,
                       taglist |-> taglist, names |-> names, genre |-> genre]
            /\ metadata' = ("genre" :> written) @@ metadata
    /\ UNCHANGED <<linked_files, num_linked_files, file_metadata,
                   file_orig_metadata, loaded, callback, inflight, undisturbed,
                   nextReq, nextReg, invoked, superseded, added, found,
                   setting, folksonomy, cb_seen, last>>

\* ---------------------------------------------------------- NonAlbumTrack
load_loaded_keep == loaded

\* NonAlbumTrack.load, line 239: the loaded flag load() leaves
load_loaded == FALSE

load_clears_callback ==
    /\ nextReq < MaxReq
    /\ metadata' = [metadata_copy(album_metadata) EXCEPT !["title"] = LOADING_TITLE]
    /\ loaded' = load_loaded
    /\ callback' = NoCallback
    /\ nextReq' = nextReq + 1
    /\ inflight' = inflight \cup {nextReq + 1}
    /\ undisturbed' = undisturbed \cup {nextReq + 1}
    /\ found' = [found EXCEPT
                    ![nextReq + 1] = [loaded |-> loaded, metadata |-> metadata]]
    /\ cb_seen' = NoView
    /\ last' = Called("load", nextReq + 1, loaded, "",
                      <<"nats.update", "xmlws.get_track_by_id">>)
    /\ UNCHANGED <<setting, folksonomy, out>>
    /\ UNCHANGED <<linked_files, num_linked_files, file_metadata,
                   file_orig_metadata, nextReg, invoked, superseded, added>>

load ==
    /\ nextReq < MaxReq
    /\ metadata' = [metadata_copy(album_metadata) EXCEPT !["title"] = LOADING_TITLE]
    /\ loaded' = load_loaded
    /\ nextReq' = nextReq + 1
    /\ inflight' = inflight \cup {nextReq + 1}
    /\ undisturbed' = undisturbed \cup {nextReq + 1}
    /\ found' = [found EXCEPT
                    ![nextReq + 1] = [loaded |-> loaded, metadata |-> metadata]]
    /\ cb_seen' = NoView
    /\ last' = Called("load", nextReq + 1, loaded, "",
                      <<"nats.update", "xmlws.get_track_by_id">>)
    /\ UNCHANGED <<setting, folksonomy, out>>
    /\ UNCHANGED <<linked_files, num_linked_files, file_metadata,
                   file_orig_metadata, callback, nextReg, invoked, superseded,
                   added>>

\* the loop of lines 268-269: update_file_metadata for every linked file
RECURSIVE update_linked_files(_, _, _, _)
update_linked_files(lf, md, fm, i) ==
    IF i > Len(lf)
    THEN fm
    ELSE update_linked_files(lf, md, update_file_metadata(lf, md, fm, lf[i]), i + 1)

\* the collaborators that loop calls
RECURSIVE update_linked_files_calls(_, _)
update_linked_files_calls(lf, i) ==
    IF i > Len(lf)
    THEN <<>>
    ELSE update_file_metadata_calls(lf, lf[i]) \o update_linked_files_calls(lf, i + 1)

parse_recording_keep_callback(recording) ==
    LET m == recording_to_metadata(recording, metadata) IN
    [ metadata |-> m,
      loaded   |-> TRUE,
      callback |-> callback,
      invoked  |-> IF callback # NoCallback
                   THEN [invoked EXCEPT ![callback] = @ + 1]
                   ELSE invoked,
      cb_seen  |-> IF callback # NoCallback
                   THEN [reg |-> callback, loaded |-> TRUE, metadata |-> m,
                         file_metadata |-> file_metadata]
                   ELSE NoView,
      calls    |-> (IF callback # NoCallback THEN <<"func">> ELSE <<>>)
                   \o <<"nats.update">> ]

parse_recording_after_push(recording) ==
    LET m == recording_to_metadata(recording, metadata) IN
    [ metadata |-> m,
      loaded   |-> TRUE,
      callback |-> NoCallback,
      invoked  |-> IF callback # NoCallback
                   THEN [invoked EXCEPT ![callback] = @ + 1]
                   ELSE invoked,
      cb_seen  |-> IF callback # NoCallback
                   THEN [reg |-> callback, loaded |-> TRUE, metadata |-> m,
                         file_metadata |->
                             update_linked_files(linked_files, m, file_metadata, 1)]
                   ELSE NoView,
      calls    |-> (IF callback # NoCallback THEN <<"func">> ELSE <<>>)
                   \o <<"nats.update">> ]

\* NonAlbumTrack._parse_recording(recording): the track's fields afterwards,
\* and what the pending func (if any) saw when it was called; the files are
\* as the handler found them, the loop over linked_files runs after the return
parse_recording(recording) ==
    LET m == recording_to_metadata(recording, metadata) IN
    [ metadata |-> m,
      loaded   |-> TRUE,
      callback |-> NoCallback,
      invoked  |-> IF callback # NoCallback
                   THEN [invoked EXCEPT ![callback] = @ + 1]
                   ELSE invoked,
      cb_seen  |-> IF callback # NoCallback
                   THEN [reg |-> callback, loaded |-> TRUE, metadata |-> m,
                         file_metadata |-> file_metadata]
                   ELSE NoView,
      calls    |-> (IF callback # NoCallback THEN <<"func">> ELSE <<>>)
                   \o <<"nats.update">> ]

\* the track's metadata when parsing the document has raised: line 266
\* raises before anything is written, recording_to_metadata after it wrote
raised_metadata(document) ==
    IF document = Malformed
    THEN metadata
    ELSE recording_to_metadata(document, metadata)

request_outcome_ignore_raise(document, error) ==
    IF error THEN "error" ELSE "ok"

request_outcome_ignore_error(document, error) ==
    IF Raises(document) THEN "raise" ELSE "ok"

\* NonAlbumTrack._recording_request_finished, lines 262-271: the path taken
request_outcome(document, error) ==
    IF error THEN "error"
    ELSE IF Raises(document) THEN "raise" ELSE "ok"

recording_request_finished_generation_guard(req, document, error) ==
    /\ req \in inflight
    /\ inflight' = inflight \ {req}
    /\ undisturbed' = {}
    /\ IF request_outcome(document, error) = "ok" /\ req = nextReq
       THEN LET p == parse_recording(document) IN
            /\ metadata' = p.metadata
            /\ loaded' = p.loaded
            /\ callback' = p.callback
            /\ invoked' = p.invoked
            /\ cb_seen' = p.cb_seen
            /\ file_metadata' =
                  update_linked_files(linked_files, p.metadata, file_metadata, 1)
            /\ last' = Called("_recording_request_finished", req,
                              req \in undisturbed, delivered(document, error),
                              p.calls \o update_linked_files_calls(linked_files, 1))
       ELSE /\ cb_seen' = NoView
            /\ last' = Called("_recording_request_finished", req,
                              req \in undisturbed, delivered(document, error),
                              <<"log.error">>)
            /\ metadata' = IF request_outcome(document, error) = "raise"
                                /\ req = nextReq
                           THEN raised_metadata(document)
                           ELSE metadata
            /\ UNCHANGED <<loaded, callback, invoked, file_metadata>>
    /\ UNCHANGED <<setting, folksonomy, out>>
    /\ UNCHANGED <<linked_files, num_linked_files, file_orig_metadata,
                   nextReq, nextReg, superseded, added, found>>

recording_request_finished(req, document, error) ==
    /\ req \in inflight
    /\ inflight' = inflight \ {req}
    /\ undisturbed' = {}
    /\ IF request_outcome(document, error) = "ok"
       THEN LET p == parse_recording(document) IN
            /\ metadata' = p.metadata
            /\ loaded' = p.loaded
            /\ callback' = p.callback
            /\ invoked' = p.invoked
            /\ cb_seen' = p.cb_seen
            /\ file_metadata' =
                  update_linked_files(linked_files, p.metadata, file_metadata, 1)
            /\ last' = Called("_recording_request_finished", req,
                              req \in undisturbed, delivered(document, error),
                              p.calls \o update_linked_files_calls(linked_files, 1))
       ELSE /\ cb_seen' = NoView
            /\ last' = Called("_recording_request_finished", req,
                              req \in undisturbed, delivered(document, error),
                              <<"log.error">>)
            /\ metadata' = IF request_outcome(document, error) = "raise"
                           THEN raised_metadata(document)
                           ELSE metadata
            /\ UNCHANGED <<loaded, callback, invoked, file_metadata>>
    /\ UNCHANGED <<setting, folksonomy, out>>
    /\ UNCHANGED <<linked_files, num_linked_files, file_orig_metadata,
                   nextReq, nextReg, superseded, added, found>>

run_when_loaded_first_wins(func) ==
    /\ nextReg < MaxReg
    /\ func = nextReg + 1
    /\ nextReg' = func
    /\ IF loaded
       THEN /\ invoked' = [invoked EXCEPT ![func] = @ + 1]
            /\ cb_seen' = [reg |-> func, loaded |-> loaded, metadata |-> metadata,
                           file_metadata |-> file_metadata]
            /\ last' = Called("run_when_loaded", func, TRUE, "", <<"func">>)
            /\ UNCHANGED <<callback, superseded>>
       ELSE /\ callback' = IF callback = NoCallback THEN func ELSE callback
            /\ superseded' =
                  superseded \cup {r \in 1..nextReg : invoked[r] = 0}
            /\ cb_seen' = NoView
            /\ last' = Called("run_when_loaded", func, FALSE, "", <<>>)
            /\ UNCHANGED invoked
    /\ UNCHANGED <<setting, folksonomy, out>>
    /\ UNCHANGED <<linked_files, num_linked_files, metadata, file_metadata,
                   file_orig_metadata, loaded, inflight, undisturbed, nextReq,
                   added, found>>

run_when_loaded_also_store(func) ==
    /\ nextReg < MaxReg
    /\ func = nextReg + 1
    /\ nextReg' = func
    /\ callback' = func
    /\ IF loaded
       THEN /\ invoked' = [invoked EXCEPT ![func] = @ + 1]
            /\ cb_seen' = [reg |-> func, loaded |-> loaded, metadata |-> metadata,
                           file_metadata |-> file_metadata]
            /\ last' = Called("run_when_loaded", func, TRUE, "", <<"func">>)
            /\ UNCHANGED superseded
       ELSE /\ superseded' =
                  superseded \cup {r \in 1..nextReg : invoked[r] = 0}
            /\ cb_seen' = NoView
            /\ last' = Called("run_when_loaded", func, FALSE, "", <<>>)
            /\ UNCHANGED invoked
    /\ UNCHANGED <<setting, folksonomy, out>>
    /\ UNCHANGED <<linked_files, num_linked_files, metadata, file_metadata,
                   file_orig_metadata, loaded, inflight, undisturbed, nextReq,
                   added, found>>

\* NonAlbumTrack.run_when_loaded(func); every call passes a func of its own,
\* numbered in call order
run_when_loaded(func) ==
    /\ nextReg < MaxReg
    /\ func = nextReg + 1
    /\ nextReg' = func
    /\ IF loaded
       THEN /\ invoked' = [invoked EXCEPT ![func] = @ + 1]
            /\ cb_seen' = [reg |-> func, loaded |-> loaded, metadata |-> metadata,
                           file_metadata |-> file_metadata]
            /\ last' = Called("run_when_loaded", func, TRUE, "", <<"func">>)
            /\ UNCHANGED <<callback, superseded>>
       ELSE /\ callback' = func
            /\ superseded' =
                  superseded \cup {r \in 1..nextReg : invoked[r] = 0}
            /\ cb_seen' = NoView
            /\ last' = Called("run_when_loaded", func, FALSE, "", <<>>)
            /\ UNCHANGED invoked
    /\ UNCHANGED <<setting, folksonomy, out>>
    /\ UNCHANGED <<linked_files, num_linked_files, metadata, file_metadata,
                   file_orig_metadata, loaded, inflight, undisturbed, nextReq,
                   added, found>>

\* ------------------------------------------------------------ specification
Init ==
    /\ linked_files = <<>>
    /\ num_linked_files = 0
    /\ metadata = EmptyMetadata
    /\ file_orig_metadata = [f \in Files |-> orig_metadata(f)]
    /\ file_metadata = file_orig_metadata
    /\ loaded = FALSE
    /\ callback = NoCallback
    /\ inflight = {}
    /\ undisturbed = {}
    /\ nextReq = 0
    /\ nextReg = 0
    /\ invoked = [r \in RegIds |-> 0]
    /\ superseded = {}
    /\ added = {}
    /\ found = [q \in ReqIds |-> [loaded |-> FALSE, metadata |-> EmptyMetadata]]
    /\ setting = DefaultSetting
    /\ folksonomy = NoFolksonomy
    /\ out = NoOut
    /\ cb_seen = NoView
    /\ last = Called("__init__", 0, FALSE, "", <<>>)

Next ==
    \/ \E file \in Files : add_file(file)
    \/ \E file \in Files : remove_file(file)
    \/ \E file \in Files : push(file)
    \/ load
    \/ \E req \in ReqIds, document \in Documents, error \in BOOLEAN :
          recording_request_finished(req, document, error)
    \/ \E func \in RegIds : run_when_loaded(func)

Spec == Init /\ [][Next]_vars

\* ---------------------------------------------- specification: completeness
\* a track with any marker, under any completeness options, with any number
\* of linked files, each carrying the track's metadata
InitComplete ==
    /\ \E n \in 0..MaxFiles :
          /\ linked_files = [i \in 1..n |-> i]
          /\ num_linked_files = n
          /\ added = 1..n
    /\ \E flags \in [FlagKeys -> {"", "1"}] : metadata = flags @@ EmptyMetadata
    /\ \E videos, pregap, data, silence \in BOOLEAN :
          setting = [DefaultSetting EXCEPT
                        !.completeness_ignore_videos = videos,
                        !.completeness_ignore_pregap = pregap,
                        !.completeness_ignore_data = data,
                        !.completeness_ignore_silence = silence]
    /\ file_orig_metadata = [f \in Files |-> orig_metadata(f)]
    /\ file_metadata =
          update_linked_files(linked_files, metadata, file_orig_metadata, 1)
    /\ loaded = FALSE
    /\ callback = NoCallback
    /\ inflight = {}
    /\ undisturbed = {}
    /\ nextReq = 0
    /\ nextReg = 0
    /\ invoked = [r \in RegIds |-> 0]
    /\ superseded = {}
    /\ found = [q \in ReqIds |-> [loaded |-> FALSE, metadata |-> EmptyMetadata]]
    /\ folksonomy = NoFolksonomy
    /\ out = NoOut
    /\ cb_seen = NoView
    /\ last = Called("__init__", 0, FALSE, "", <<>>)

NextComplete == query_is_complete

SpecComplete == InitComplete /\ [][NextComplete]_vars

\* ----------------------------------------------------- specification: genre
\* a track without files whose vote collections and options are any of the
\* values above
InitGenre ==
    /\ \E track \in TrackTags, album \in AlbumTags, release_group \in ReleaseGroups :
          folksonomy = [track |-> track, album |-> album,
                        release_group |-> release_group,
                        track_artists |-> TrackArtistsTags,
                        album_artists |-> AlbumArtistsTags]
    /\ \E artists_tags \in BOOLEAN, max_tags \in MaxTagsOptions,
          min_tag_usage \in MinTagUsageOptions,
          ignore_tags \in IgnoreTagsOptions, join_tags \in JoinTagsOptions :
          setting = [DefaultSetting EXCEPT
                        !.artists_tags = artists_tags,
                        !.max_tags = max_tags,
                        !.min_tag_usage = min_tag_usage,
                        !.ignore_tags = ignore_tags,
                        !.join_tags = join_tags]
    /\ \E albumartistid \in {VARIOUS_ARTISTS_ID, ""} :
          metadata = ("musicbrainz_albumartistid" :> albumartistid) @@ EmptyMetadata
    /\ linked_files = <<>>
    /\ num_linked_files = 0
    /\ added = {}
    /\ file_orig_metadata = [f \in Files |-> orig_metadata(f)]
    /\ file_metadata = file_orig_metadata
    /\ loaded = FALSE
    /\ callback = NoCallback
    /\ inflight = {}
    /\ undisturbed = {}
    /\ nextReq = 0
    /\ nextReg = 0
    /\ invoked = [r \in RegIds |-> 0]
    /\ superseded = {}
    /\ found = [q \in ReqIds |-> [loaded |-> FALSE, metadata |-> EmptyMetadata]]
    /\ out = NoOut
    /\ cb_seen = NoView
    /\ last = Called("__init__", 0, FALSE, "", <<>>)

NextGenre ==
    \E order \in Orders(DOMAIN positive_tags(tags_with_artists(merged_tags))) :
        convert_folksonomy_tags_to_genre(order)

SpecGenre == InitGenre /\ [][NextGenre]_vars

\* ------------------------------------------------------------------ claims
FINISHED == "_recording_request_finished"

\* file metadata fmd is the push of track metadata md to file f
Synced(fmd, md, f) ==
    /\ \A k \in Keys \ {"~extension"} : fmd[k] = md[k]
    /\ fmd["~extension"] = file_orig_metadata[f]["~extension"]

CountOf(seq, x) == Cardinality({i \in 1..Len(seq) : seq[i] = x})

\* C1: after any sequence of add_file and remove_file calls, linked_files
\* holds every file at most once, num_linked_files = len(linked_files), and
\* that is the number of distinct files added and not removed since.
C1_LinkedFilesCount ==
    /\ Cardinality(Range(linked_files)) = Len(linked_files)
    /\ num_linked_files = Len(linked_files)
    /\ Range(linked_files) = added
    /\ num_linked_files = Cardinality(added)

\* a duplicate add on a track that holds two files
C1_Witness ==
    /\ last.op = "add_file"
    /\ last.was
    /\ num_linked_files = 2

\* C2: right after add_file(f), whether f was new or already linked, f's
\* working metadata equals the track's metadata in every tag but
\* '~extension', which equals f's original '~extension'.
C2_AddFilePushes ==
    last.op = "add_file" => Synced(file_metadata[last.arg], metadata, last.arg)

\* add_file of an already linked file on a track whose metadata carries an
\* extension of its own
C2_Witness ==
    /\ last.op = "add_file"
    /\ last.was
    /\ metadata["~extension"] = ".flac"
    /\ file_metadata[last.arg]["title"] = "B"
    /\ file_metadata[last.arg]["~extension"] # ".flac"

\* C3: after remove_file(f) on a linked file f, f is not in linked_files and
\* f's working metadata equals f's original metadata exactly.
C3_RemoveFileReverts ==
    (last.op = "remove_file" /\ last.was) =>
        /\ last.arg \notin Range(linked_files)
        /\ file_metadata[last.arg] = file_orig_metadata[last.arg]

\* a linked file is removed from a loaded track whose metadata differs from
\* the file's original metadata
C3_Witness ==
    /\ last.op = "remove_file"
    /\ last.was
    /\ loaded
    /\ metadata["title"] = "B"
    /\ metadata # file_orig_metadata[last.arg]

\* C4 as claimed: add_file(f) on an already linked f is a no-op: list, count
\* and f's working metadata stay, the album is not notified, nothing is pushed.
C4_AddLinkedIsNoOp ==
    [][ (last'.op = "add_file" /\ last'.was) =>
            /\ UNCHANGED <<linked_files, num_linked_files, file_metadata>>
            /\ last'.calls = <<>> ]_vars

\* C4 amended: add_file(f) on an already linked f leaves linked_files and
\* num_linked_files alone, but still notifies the album and still pushes the
\* track's metadata to f (and to no other file).
C4_AddLinkedStillPushes ==
    [][ (last'.op = "add_file" /\ last'.was) =>
            /\ UNCHANGED <<linked_files, num_linked_files>>
            /\ CountOf(last'.calls, "album._add_file") = 1
            /\ CountOf(last'.calls, "file.update") = 1
            /\ Synced(file_metadata'[last'.arg], metadata, last'.arg)
            /\ \A g \in Files \ {last'.arg} : file_metadata'[g] = file_metadata[g]
      ]_vars

\* a file linked before load() is added again after it and now carries the
\* placeholder title
C4_Witness ==
    /\ last.op = "add_file"
    /\ last.was
    /\ metadata["title"] = LOADING_TITLE
    /\ file_metadata[last.arg]["title"] = LOADING_TITLE

\* the registrations still waiting: never invoked and not superseded
Waiting == {r \in 1..nextReg : invoked[r] = 0} \ superseded

\* C5: the callback slot is last-writer-wins: a func registered while the
\* track was not loaded and followed by another such registration is never
\* invoked, and a successful completion invokes only the latest waiting one.
C5_LastWriterWins ==
    [][ /\ \A r \in superseded' : invoked'[r] = 0
        /\ (last'.op = FINISHED /\ last'.input = "recording") =>
              /\ Cardinality(Waiting) <= 1
              /\ \A r \in RegIds :
                    invoked'[r] = IF r \in Waiting THEN 1 ELSE invoked[r]
      ]_vars

\* two registrations while not loaded, then a successful completion: the
\* second func ran, the first did not
C5_Witness ==
    /\ last.op = FINISHED
    /\ last.input = "recording"
    /\ superseded = {1}
    /\ invoked[1] = 0
    /\ invoked[2] = 1
    /\ cb_seen.reg = 2

\* C6: run_when_loaded(func) on a loaded track calls func exactly once within
\* the call, issues no fetch, and leaves the slot and the loaded flag alone.
C6_RunWhenLoadedImmediate ==
    [][ (last'.op = "run_when_loaded" /\ last'.was) =>
            /\ last'.calls = <<"func">>
            /\ invoked[last'.arg] = 0
            /\ invoked' = [invoked EXCEPT ![last'.arg] = 1]
            /\ UNCHANGED <<callback, loaded, inflight, nextReq>>
      ]_vars

\* run_when_loaded on a loaded track with an empty slot
C6_Witness ==
    /\ last.op = "run_when_loaded"
    /\ last.was
    /\ loaded
    /\ invoked[last.arg] = 1
    /\ cb_seen.reg = last.arg
    /\ callback = NoCallback

C8_ErrorChangesNothing ==
    [][ (last'.op = FINISHED /\ last'.input = "error" /\ last'.was) =>
            /\ ~loaded
            /\ UNCHANGED <<loaded, metadata, file_metadata, callback, invoked,
                           linked_files, num_linked_files>>
            /\ CountOf(last'.calls, "func") = 0
      ]_vars

\* an error completion with a callback pending and a file linked
C8_Witness ==
    /\ last.op = FINISHED
    /\ last.input = "error"
    /\ last.was
    /\ callback # NoCallback
    /\ linked_files # <<>>

ReloadFailed ==
    /\ last.op = FINISHED
    /\ last.input = "error"
    /\ last.was
    /\ found[last.arg].loaded

\* C10 as claimed: after a reload whose fetch failed, loaded is still true
\* and the previously loaded metadata is still in place.
C10_ReloadFailureKeepsLoaded ==
    ReloadFailed => (loaded /\ metadata = found[last.arg].metadata)

\* C10 amended: load() itself sets loaded to false and replaces the metadata
\* by the album's metadata with the placeholder title; the failed completion
\* changes neither, so after a reload whose fetch failed loaded is false and
\* the metadata is the placeholder one, not the previously loaded one.
C10_ReloadFailureLeavesPlaceholder ==
    ReloadFailed =>
        /\ ~loaded
        /\ metadata = [album_metadata EXCEPT !["title"] = LOADING_TITLE]
        /\ metadata # found[last.arg].metadata

\* a track loaded with title "A" was reloaded and the fetch failed
C10_Witness ==
    /\ ReloadFailed
    /\ found[last.arg].metadata["title"] = "A"
\* the marker of each category and the option that ignores the category
Categories ==
    { <<"~video", "completeness_ignore_videos">>,
      <<"~pregap", "completeness_ignore_pregap">>,
      <<"~datatrack", "completeness_ignore_data">>,
      <<"~silence", "completeness_ignore_silence">> }

\* C11: for every combination of the four category markers, the four
\* completeness_ignore_* options and every linked-file count, is_complete()
\* is true iff some marker is set while its matching option is enabled, or
\* num_linked_files = 1.
C11_IsComplete ==
    out.op = "is_complete" =>
        out.result =
            ( \/ \E c \in Categories : tag(metadata, c[1]) = "1" /\ setting[c[2]]
              \/ num_linked_files = 1 )

\* a silence track with two linked files is complete because silence is
\* ignored, although it is also marked video and videos are not ignored
C11_Witness ==
    /\ out.op = "is_complete"
    /\ out.result
    /\ num_linked_files = 2
    /\ metadata["~silence"] = "1"
    /\ setting.completeness_ignore_silence
    /\ metadata["~video"] = "1"
    /\ ~setting.completeness_ignore_videos
    /\ ~setting.completeness_ignore_pregap
    /\ ~setting.completeness_ignore_data

\* the ignore list as the claims read it: name is ignored when its lowercase
\* form equals a trimmed, lowercased piece of the ignore_tags option
Ignored(name) ==
    \E i \in 1..Len(setting.ignore_tags) :
        /\ setting.ignore_tags[i] # ""
        /\ str_strip_lower[setting.ignore_tags[i]] = str_lower[name]

Min(a, b) == IF a < b THEN a ELSE b

\* the top max_tags entries of the ranked list
TopN == SubSeq(out.taglist, 1, Min(setting.max_tags, Len(out.taglist)))

\* C12: the minimum-usage threshold is a hard stop in rank order: the genre
\* consists of the non-ignored names of the ranked top max_tags list, in rank
\* order, that come before the first entry whose score is below
\* min_tag_usage; each name is translated or title-cased, and the list is
\* joined into one string when join_tags is set.
C12_MinUsageHardStop ==
    (out.op = CONVERT /\ out.written) =>
        LET stops == {i \in 1..Len(TopN) : TopN[i][1] < setting.min_tag_usage}
            first == IF stops = {} THEN Len(TopN) + 1
                     ELSE CHOOSE i \in stops : \A j \in stops : i <= j
            NotIgnored(e) == ~Ignored(e[2])
            kept == SelectSeq(SubSeq(TopN, 1, first - 1), NotIgnored)
        IN  /\ out.names = [i \in 1..Len(kept) |-> kept[i][2]]
            /\ out.genre = [i \in 1..Len(kept) |->
                               IF kept[i][2] \in DOMAIN TRANSLATE_TAGS
                               THEN TRANSLATE_TAGS[kept[i][2]]
                               ELSE str_title[kept[i][2]]]
            /\ metadata["genre"] =
                  IF setting.join_tags = "" THEN out.genre
                  ELSE <<str_join(setting.join_tags, out.genre, 1)>>

\* track {rock: 5}, album {rock: 3, pop: 2}, max_tags 10, min_tag_usage 30,
\* nothing ignored: scores rock 100 and pop 25, genre ["Rock"]
C12_Witness ==
    /\ out.op = CONVERT
    /\ folksonomy.track = ("rock" :> 5)
    /\ folksonomy.album = ("rock" :> 3) @@ ("pop" :> 2)
    /\ folksonomy.release_group = <<>>
    /\ setting.max_tags = 10
    /\ setting.min_tag_usage = 30
    /\ setting.ignore_tags = <<"">>
    /\ setting.join_tags = ""
    /\ out.taglist = << <<100, "rock">>, <<25, "pop">> >>
    /\ metadata["genre"] = <<"Rock">>

\* the sum of the counts of name n over a set of indexed collections
RECURSIVE SumVotes(_, _)
SumVotes(collections, n) ==
    IF collections = {} THEN 0
    ELSE LET c == CHOOSE x \in collections : TRUE IN
         (IF n \in DOMAIN c[2] THEN c[2][n] ELSE 0)
         + SumVotes(collections \ {c}, n)

\* the collections of lines 174-177, as a set: merging in any order
MergedSources ==
    { <<"track", folksonomy.track>>, <<"album", folksonomy.album>> }
    \cup { <<"release_group", folksonomy.release_group[i]>> :
              i \in 1..Len(folksonomy.release_group) }

\* C13: the ranked list is a function of the merged counts alone: without
\* the artist fallback the merged count of a name is the sum of its counts
\* over the track, album and release-group collections; every name with a
\* positive merged count occurs once, with score floor(100 * count / max);
\* the list is in descending (score, name) order, equal scores by name
\* descending, whatever the iteration order of the dict.
C13_Deterministic ==
    out.op = CONVERT =>
        LET positive == {n \in DOMAIN out.tags : out.tags[n] > 0}
            max == CHOOSE c \in {out.tags[n] : n \in positive} :
                       \A n \in positive : out.tags[n] <= c
            list == out.taglist
        IN  /\ ~out.fallback =>
                  /\ DOMAIN out.tags = UNION {DOMAIN c[2] : c \in MergedSources}
                  /\ \A n \in DOMAIN out.tags :
                        out.tags[n] = SumVotes(MergedSources, n)
            /\ out.written = (positive # {})
            /\ Len(list) = Cardinality(positive)
            /\ {list[i][2] : i \in 1..Len(list)} = positive
            /\ \A i \in 1..Len(list) :
                  /\ list[i][1] * max <= 100 * out.tags[list[i][2]]
                  /\ 100 * out.tags[list[i][2]] < (list[i][1] + 1) * max
            /\ \A i, j \in 1..Len(list) :
                  i < j =>
                     \/ list[i][1] > list[j][1]
                     \/ /\ list[i][1] = list[j][1]
                        /\ code_point_rank[list[i][2]] > code_point_rank[list[j][2]]

\* four names, two of them with equal counts and one whose percentage is
\* not a whole number: rock 100, pop 100, hip hop 66, Pop 33
C13_Witness ==
    /\ out.op = CONVERT
    /\ out.taglist = << <<100, "rock">>, <<100, "pop">>,
                        <<66, "hip hop">>, <<33, "Pop">> >>

\* C17: the artists' collections are merged only when artists_tags is
\* enabled and the track, album and release-group collections hold no name
\* at all; a name with a zero or negative merged count blocks the fallback
\* and the genre is then not written.  When the fallback applies, the
\* track's artists are used iff the album-artist id is the various-artists
\* id, else the album's artists.
C17_ArtistFallback ==
    out.op = CONVERT =>
        LET base == UNION {DOMAIN c[2] : c \in MergedSources}
            artists == IF tag(metadata, "musicbrainz_albumartistid")
                            = VARIOUS_ARTISTS_ID
                       THEN folksonomy.track_artists
                       ELSE folksonomy.album_artists
            votes == {<<i, artists[i]>> : i \in 1..Len(artists)}
        IN  /\ out.fallback = (setting.artists_tags /\ base = {})
            /\ out.fallback =>
                  /\ DOMAIN out.tags = UNION {DOMAIN c[2] : c \in votes}
                  /\ \A n \in DOMAIN out.tags : out.tags[n] = SumVotes(votes, n)
            /\ ~out.fallback => DOMAIN out.tags = base
            /\ (~out.fallback /\ \A n \in base : out.tags[n] <= 0) =>
                  /\ ~out.written
                  /\ "genre" \notin DOMAIN metadata

\* artists_tags is enabled and the artists carry votes, but the track's only
\* name has count zero: no fallback, no genre
C17_Witness ==
    /\ out.op = CONVERT
    /\ setting.artists_tags
    /\ folksonomy.track = ("pop" :> 0)
    /\ folksonomy.album = EmptyTags
    /\ folksonomy.release_group = <<>>
    /\ ~out.fallback
    /\ out.tags = ("pop" :> 0)
    /\ ~out.written
    /\ "genre" \notin DOMAIN metadata

\* C18: max_tags truncates the ranked list before the ignore list filters
\* it: every genre name is one of the max_tags highest-ranked names, an
\* ignored name among them is dropped and not replaced, so the loop yields at
\* most max_tags names and possibly fewer.
C18_MaxTagsBeforeIgnore ==
    (out.op = CONVERT /\ out.written) =>
        /\ Len(out.names) <= setting.max_tags
        /\ Len(out.genre) = Len(out.names)
        /\ Range(out.names) \subseteq {TopN[i][2] : i \in 1..Len(TopN)}
        /\ \A i \in 1..Len(TopN) :
              Ignored(TopN[i][2]) => TopN[i][2] \notin Range(out.names)
        /\ setting.join_tags = "" => Len(metadata["genre"]) <= setting.max_tags

\* an ignored name takes one of the max_tags places, the genre has fewer
\* than max_tags names, and the name ranked right after the cut is neither
\* ignored nor below min_tag_usage
C18_Witness ==
    /\ out.op = CONVERT
    /\ out.written
    /\ setting.max_tags > 0
    /\ Len(out.taglist) > setting.max_tags
    /\ \E i \in 1..Len(TopN) : Ignored(TopN[i][2])
    /\ Len(out.names) < setting.max_tags
    /\ ~Ignored(out.taglist[setting.max_tags + 1][2])
    /\ out.taglist[setting.max_tags + 1][1] >= setting.min_tag_usage

\* C14: synchronization is one-directional: add_file, remove_file and
\* update_file_metadata never change the track's metadata, whatever the
\* files carry; a push leaves on the file the track's value of every tag but
\* '~extension', which is the file's own original one.
C14_SyncOneDirectional ==
    [][ (last'.op \in {"add_file", "remove_file", "update_file_metadata"}) =>
            /\ metadata' = metadata
            /\ UNCHANGED <<loaded, file_orig_metadata>>
            /\ (last'.op # "remove_file" /\ last'.arg \in Range(linked_files')) =>
                  /\ \A k \in Keys \ {"~extension"} :
                        file_metadata'[last'.arg][k] = metadata[k]
                  /\ file_metadata'[last'.arg]["~extension"] =
                        file_orig_metadata[last'.arg]["~extension"]
      ]_vars

\* update_file_metadata on a linked file whose extension and original title
\* differ from the track's: the file took the track's title and kept its own
\* extension, the track kept both of its values
C14_Witness ==
    /\ last.op = "update_file_metadata"
    /\ last.was
    /\ metadata["title"] = "B"
    /\ metadata["~extension"] = ".flac"
    /\ file_metadata[last.arg]["title"] = "B"
    /\ file_metadata[last.arg]["~extension"] = ".mp3"
    /\ file_orig_metadata[last.arg]["title"] = "on disk"

\* C15: a completion without error indicator whose parsing raises is caught
\* and treated like a fetch error: loaded is not set, the pending callback is
\* not invoked and stays pending, no linked file is pushed, the failure is
\* logged, and load() can be called again.
C15_MalformedLikeError ==
    [][ /\ (last'.op = FINISHED /\ last'.input = "malformed") =>
              /\ UNCHANGED <<loaded, callback, invoked, file_metadata,
                             linked_files, num_linked_files>>
              /\ last'.was => ~loaded'
              /\ last'.calls = <<"log.error">>
              /\ cb_seen' = NoView
        /\ (last.op = FINISHED /\ last.input = "malformed"
                /\ nextReq < MaxReq) => ENABLED load
      ]_vars

\* the translator raised after it had written the recording's title: a
\* callback is still pending, the track is not loaded and the linked file
\* was not pushed
C15_Witness ==
    /\ last.op = FINISHED
    /\ last.input = "malformed"
    /\ last.was
    /\ ~loaded
    /\ callback # NoCallback
    /\ invoked[callback] = 0
    /\ metadata["title"] = "A"
    /\ \E f \in Range(linked_files) : file_metadata[f]["title"] = LOADING_TITLE

\* C16: there is no request-generation guard: every in-flight fetch can
\* complete next, whatever the order of issue, and every successful
\* completion is merged (the recording's tags are written over the track's
\* metadata and loaded is set), also when a later-issued load() exists or
\* its response was merged before.
C16_NoGenerationGuard ==
    [][ /\ \A req \in inflight :
              ENABLED recording_request_finished(req, Malformed, TRUE)
        /\ (last'.op = FINISHED /\ last'.input = "recording") =>
              /\ loaded'
              /\ CountOf(last'.calls, "nats.update") = 1
              /\ CountOf(last'.calls, "log.error") = 0
              /\ \E recording \in Recordings :
                    metadata' = recording_to_metadata(recording, metadata)
              /\ metadata'["title"] \in {"A", "B"}
      ]_vars

\* both fetches are completed and the one issued first completed last: the
\* metadata carries the extension of the response to the second load() under
\* the title of the response to the first load(), which overwrote title "B"
C16_Witness ==
    /\ last.op = FINISHED
    /\ last.input = "recording"
    /\ last.arg = 1
    /\ ~last.was
    /\ nextReq = 2
    /\ inflight = {}
    /\ loaded
    /\ metadata["title"] = "A"
    /\ metadata["~extension"] = ".flac"

\* loaded is true while a fetch is still in flight
C16_LoadedWhileInFlight ==
    /\ loaded
    /\ inflight # {}

\* C19: a pending callback survives failed attempts: load() and failed
\* completions (error indicator or exception while parsing) neither clear nor
\* invoke the slot; only run_when_loaded and a successful completion change
\* it, and a successful completion invokes the pending func, which was never
\* invoked before, exactly once and clears the slot.
C19_CallbackSurvivesFailure ==
    [][ /\ (last'.op = "load" \/
             (last'.op = FINISHED /\ last'.input \in {"error", "malformed"})) =>
              /\ UNCHANGED <<callback, invoked>>
              /\ CountOf(last'.calls, "func") = 0
        /\ callback' # callback =>
              \/ last'.op = "run_when_loaded"
              \/ last'.op = FINISHED /\ last'.input = "recording"
        /\ callback # NoCallback => invoked[callback] = 0
        /\ (last'.op = FINISHED /\ last'.input = "recording"
                /\ callback # NoCallback) =>
              /\ invoked'[callback] = 1
              /\ cb_seen'.reg = callback
              /\ callback' = NoCallback
      ]_vars

\* the first fetch failed on an exception while a func was pending; the func
\* is still pending, uninvoked, and the fetch of a second load() is in flight
C19_Witness ==
    /\ last.op = FINISHED
    /\ last.input = "malformed"
    /\ last.arg = 1
    /\ callback # NoCallback
    /\ invoked[callback] = 0
    /\ ~loaded
    /\ inflight = {2}

\* C20: between operations, loaded implies that the callback slot is empty.
C20_LoadedImpliesNoCallback ==
    loaded => callback = NoCallback

\* a successful completion has just invoked the pending func and another
\* fetch is still in flight
C20_Witness ==
    /\ loaded
    /\ last.op = FINISHED
    /\ cb_seen.reg # NoCallback
    /\ invoked[cb_seen.reg] = 1
    /\ inflight # {}
    /\ callback = NoCallback
====
